---------------------------- MODULE Spec2Model ----------------------------
(***************************************************************************)
(* A model of lolremez2d.cpp: the pivoting solver (struct solver), its     *)
(* memoised target function and the gnuplot emitter, with main as one      *)
(* client of the solver.                                                   *)
(*                                                                         *)
(* Arithmetic.  lol::real is modelled by exact rationals <<n, d>> in       *)
(* lowest terms (d > 0), and one value NonFinite that stands for the       *)
(* results +inf, -inf and NaN of a division by zero and of arithmetic on   *)
(* them.  The claims checked here are stated "under exact arithmetic";     *)
(* rounding is not modelled.                                               *)
(*                                                                         *)
(* Coordinates.  cheb(i, n) needs cos and pi; the model keeps what the     *)
(* solver uses of the nodes: n + 1 distinct values, increasing in i and    *)
(* symmetric about zero, here the integers 2i - n.                         *)
(*                                                                         *)
(* Target function.  f needs sin, acos and sqrt; the solver only ever      *)
(* reads its values.  The model draws f once, in Init, from the family     *)
(* a + b*x + c*x*y + d*(x*x + y*y) with coefficients in 0 .. MaxCoef: not  *)
(* symmetric in x and y, and of rank up to 3 as a table of grid values.    *)
(***************************************************************************)
EXTENDS Integers, Sequences, FiniteSets, TLC

\* Bounds of the model (main uses grid_size = 33 and iters = 6).
MaxGrid  == 2
MaxIters == 3
MaxCoef  == 1

VARIABLES
    m_grid_size,  \* solver::m_grid_size
    m_iters,      \* solver::m_iters
    m_ek,         \* solver::m_ek, m_ek[j][i], indices 0 .. m_iters - 1
    m_coeff,      \* solver::m_coeff, the candidate grid
    m_pivots,     \* solver::m_pivots
    cache,        \* the static cache of eval_f: <<x, y, value>> triples
    f_coef,       \* the target function drawn in Init: <<a, b, c, d>>
    f_log,        \* history: the points f itself was called on, in order
    best_vals,    \* history: best_val of every step so far, in order
    oob,          \* history: some m_ek index was outside 0 .. m_iters - 1
    last,         \* the last call made on the solver, with its arguments
    ret,          \* the value the last call returned (Zero for a void call)
    out,          \* the lines the last call wrote to std::cout
    main_n,       \* main: the loop counter n
    pc            \* main: "loop" while stepping, "exit" after the dump

vars == <<m_grid_size, m_iters, m_ek, m_coeff, m_pivots, cache, f_coef,
          f_log, best_vals, oob, last, ret, out, main_n, pc>>

---------------------------------------------------------------------------
(* lol::real: exact rationals, and NonFinite for +inf, -inf and NaN.       *)

Zero      == <<0, 1>>
One       == <<1, 1>>
NonFinite == <<0, 0>>

IsFinite(a) == a[2] # 0
\* operator bool of a real: true unless the value is zero.
IsZero(a)   == a = Zero

IAbs(n) == IF n < 0 THEN -n ELSE n
ISgn(n) == IF n < 0 THEN -1 ELSE IF n > 0 THEN 1 ELSE 0

RECURSIVE Gcd(_, _)
Gcd(a, b) == IF b = 0 THEN a ELSE Gcd(b, a % b)

\* The rational n / d (d # 0) in lowest terms with a positive denominator.
Norm(n, d) ==
    LET g == Gcd(IAbs(n), IAbs(d))
    IN  <<(ISgn(d) * n) \div g, IAbs(d) \div g>>

RNeg(a) == <<-a[1], a[2]>>

\* a + b, over the least common denominator.
RAdd(a, b) ==
    IF ~IsFinite(a) \/ ~IsFinite(b) THEN NonFinite
    ELSE LET g == Gcd(a[2], b[2])
         IN  Norm(a[1] * (b[2] \div g) + b[1] * (a[2] \div g),
                  a[2] * (b[2] \div g))

RSub(a, b) == RAdd(a, RNeg(b))

RMul(a, b) ==
    IF ~IsFinite(a) \/ ~IsFinite(b) THEN NonFinite
    ELSE Norm(a[1] * b[1], a[2] * b[2])

\* The values 1 / v can take.  A division by zero gives a non-finite value;
\* the reciprocal of a non-finite value is zero (1 / inf) or non-finite
\* (1 / NaN), and NonFinite does not tell which.
Reciprocals(v) ==
    IF IsZero(v) THEN {NonFinite}
    ELSE IF ~IsFinite(v) THEN {Zero, NonFinite}
    ELSE {Norm(v[2], v[1])}

\* fabs
RAbs(a) == <<IAbs(a[1]), a[2]>>

\* a < b on finite values.
RLt(a, b) == a[1] * b[2] < b[1] * a[2]

\* a >= b.  nfL (nfR) is the answer when the left (right) operand is not
\* finite: it depends on which of +inf, -inf, NaN the operand is and on how
\* the library orders NaN, so the model leaves both open.
RGe(a, b, nfL, nfR) ==
    IF ~IsFinite(a) THEN nfL
    ELSE IF ~IsFinite(b) THEN nfR
    ELSE ~RLt(a, b)

\* e, with v evaluated first.  The loops below are recursive operators that
\* carry the loop state in acc; evaluating acc on entry keeps it a value
\* rather than a growing chain of unevaluated operator arguments.
Strict(v, e) == IF v = v THEN e ELSE e

---------------------------------------------------------------------------
(* The target function and the candidate grid.                             *)

Coefs == 0 .. MaxCoef

\* real f(real const &x, real const &y), on the value drawn in Init.
f(x, y) ==
    <<f_coef[1] + f_coef[2] * x + f_coef[3] * x * y
          + f_coef[4] * (x * x + y * y), 1>>

\* solver::cheb(i, n)
cheb(i, n) == 2 * i - n

\* The constructor's loop: cheb(0, n), ..., cheb(n, n).
Grid(n) == [t \in 1 .. (n + 1) |-> cheb(t - 1, n)]

\* array2d<real> m_ek(iters, iters): all entries default-constructed (zero).
EmptyEk(iters) == [j \in 0 .. (iters - 1) |-> [i \in 0 .. (iters - 1) |-> Zero]]

---------------------------------------------------------------------------
(* solver::eval_f, as a function of the cache it reads and extends.        *)

\* for (auto const &v : cache) if (x == v[0] && y == v[1]): the index of the
\* first matching entry, 0 when there is none.
CacheFind(c, x, y) ==
    LET S == {t \in 1 .. Len(c) : c[t][1] = x /\ c[t][2] = y}
    IN  IF S = {} THEN 0 ELSE CHOOSE t \in S : \A u \in S : t <= u

\* Mutant of eval_f: the lookup is skipped, every call evaluates f.
eval_f_uncached(s, x, y) ==
    [v     |-> f(x, y),
     cache |-> Append(s.cache, <<x, y, f(x, y)>>),
     log   |-> Append(s.log, <<x, y>>)]

\* s = [cache, log]; the result carries the returned value v.
eval_f(s, x, y) ==
    LET t == CacheFind(s.cache, x, y)
    IN  IF t # 0
        THEN [v |-> s.cache[t][3], cache |-> s.cache, log |-> s.log]
        ELSE [v     |-> f(x, y),
              cache |-> Append(s.cache, <<x, y, f(x, y)>>),
              log   |-> Append(s.log, <<x, y>>)]

---------------------------------------------------------------------------
(* solver::eval_ek.                                                        *)

\* The double loop of eval_ek, flattened: n counts the (i, j) pairs with i
\* outer and j inner.  acc = [v, cache, log].  rtl: the build evaluates the
\* two eval_f operands of the product right to left (their order is
\* unspecified in C++).
RECURSIVE EkLoop(_, _, _, _, _)
EkLoop(acc, n, x, y, rtl) ==
    LET k == Len(m_pivots)
        i == n \div k
        j == n % k
    IN  Strict(acc,
        IF n >= k * k THEN acc
        ELSE IF IsZero(m_ek[j][i]) THEN EkLoop(acc, n + 1, x, y, rtl)
        ELSE LET s0 == [cache |-> acc.cache, log |-> acc.log]
                 a1 == eval_f(s0, m_pivots[i + 1].x, y)
                 b1 == eval_f(a1, x, m_pivots[j + 1].y)
                 b2 == eval_f(s0, x, m_pivots[j + 1].y)
                 a2 == eval_f(b2, m_pivots[i + 1].x, y)
                 a  == IF rtl THEN a2 ELSE a1
                 b  == IF rtl THEN b2 ELSE b1
                 s1 == IF rtl THEN a2 ELSE b1
             IN  EkLoop([v     |-> RAdd(acc.v, RMul(RMul(m_ek[j][i], a.v), b.v)),
                         cache |-> s1.cache,
                         log   |-> s1.log],
                        n + 1, x, y, rtl))

\* real eval_ek(x, y): the implicit f part, then the f(x_i,y)*f(x,y_j) parts.
eval_ek(s, x, y, rtl) == EkLoop(eval_f(s, x, y), 0, x, y, rtl)

\* The value eval_ek(x, y) returns in the current state (its effect on the
\* cache left aside; the value does not depend on the operand order).
EkVal(x, y) == eval_ek([cache |-> cache, log |-> f_log], x, y, FALSE).v

---------------------------------------------------------------------------
(* solver::step.                                                           *)

\* Mutant of Better: > in place of >=.
BetterStrict(res, best_val, nfL, nfR) ==
    /\ RGe(RAbs(res), RAbs(best_val), nfL, nfR)
    /\ RAbs(res) # RAbs(best_val)

\* if (fabs(res) >= fabs(best_val))
Better(res, best_val, nfL, nfR) == RGe(RAbs(res), RAbs(best_val), nfL, nfR)

\* The pivot search, flattened: t = 1 .. (grid_size+1)^2 counts the pairs
\* with y in the outer loop and x in the inner one.
\* acc = [p, v, cache, log]: best_pivot, best_val and the cache so far.
RECURSIVE Scan(_, _, _, _, _)
Scan(acc, t, nfL, nfR, rtl) ==
    LET w == Len(m_coeff)
    IN  Strict(acc,
        IF t > w * w THEN acc
        ELSE LET y == m_coeff[((t - 1) \div w) + 1]
                 x == m_coeff[((t - 1) % w) + 1]
                 r == eval_ek([cache |-> acc.cache, log |-> acc.log], x, y, rtl)
             IN  Scan(IF Better(r.v, acc.v, nfL, nfR)
                      THEN [p |-> [x |-> x, y |-> y], v |-> r.v,
                            cache |-> r.cache, log |-> r.log]
                      ELSE [p |-> acc.p, v |-> acc.v,
                            cache |-> r.cache, log |-> r.log],
                      t + 1, nfL, nfR, rtl))

\* real2 best_pivot { 0, 0 }; real best_val(0); and the two for loops.
FindPivot(nfL, nfR, rtl) ==
    Scan([p |-> [x |-> 0, y |-> 0], v |-> Zero, cache |-> cache, log |-> f_log],
         1, nfL, nfR, rtl)

\* Mutant of CrossLoop: the two vectors are indexed the other way round.
RECURSIVE CrossLoopSwapped(_, _, _)
CrossLoopSwapped(acc, n, best) ==
    LET k == Len(m_pivots)
        i == n \div k
        j == n % k
    IN  Strict(acc,
        IF n >= k * k THEN acc
        ELSE IF IsZero(m_ek[j][i]) THEN CrossLoopSwapped(acc, n + 1, best)
        ELSE LET r1 == eval_f([cache |-> acc.cache, log |-> acc.log],
                              m_pivots[i + 1].x, best.y)
                 ex == [acc.ek_x EXCEPT
                           ![i] = RAdd(@, RMul(m_ek[j][i], r1.v))]
                 r2 == eval_f(r1, best.x, m_pivots[j + 1].y)
                 ey == [acc.ek_y EXCEPT
                           ![j] = RAdd(@, RMul(m_ek[j][i], r2.v))]
             IN  CrossLoopSwapped([ek_x |-> ex, ek_y |-> ey,
                                   cache |-> r2.cache, log |-> r2.log],
                                  n + 1, best))

\* The loops that fill ek_x and ek_y (i outer, j inner), flattened.
\* acc = [ek_x, ek_y, cache, log]; ek_x and ek_y have indices 0 .. k.
RECURSIVE CrossLoop(_, _, _)
CrossLoop(acc, n, best) ==
    LET k == Len(m_pivots)
        i == n \div k
        j == n % k
    IN  Strict(acc,
        IF n >= k * k THEN acc
        ELSE IF IsZero(m_ek[j][i]) THEN CrossLoop(acc, n + 1, best)
        ELSE LET r1 == eval_f([cache |-> acc.cache, log |-> acc.log],
                              m_pivots[i + 1].x, best.y)
                 ex == [acc.ek_x EXCEPT
                           ![j] = RAdd(@, RMul(m_ek[j][i], r1.v))]
                 r2 == eval_f(r1, best.x, m_pivots[j + 1].y)
                 ey == [acc.ek_y EXCEPT
                           ![i] = RAdd(@, RMul(m_ek[j][i], r2.v))]
             IN  CrossLoop([ek_x |-> ex, ek_y |-> ey,
                            cache |-> r2.cache, log |-> r2.log],
                           n + 1, best))

\* Mutant of CrossVectors: the implicit f component is left at zero in ek_y.
CrossVectorsNoImplicit(sc) ==
    LET k  == Len(m_pivots)
        z  == [t \in 0 .. k |-> Zero]
        cl == CrossLoop([ek_x |-> z, ek_y |-> z,
                         cache |-> sc.cache, log |-> sc.log], 0, sc.p)
    IN  [ek_x  |-> [cl.ek_x EXCEPT ![k] = One],
         ek_y  |-> cl.ek_y,
         cache |-> cl.cache,
         log   |-> cl.log]

\* ek_x, ek_y: resized to k + 1 zeros, filled by the loops, then the
\* implicit f component set to 1.
CrossVectors(sc) ==
    LET k  == Len(m_pivots)
        z  == [t \in 0 .. k |-> Zero]
        cl == CrossLoop([ek_x |-> z, ek_y |-> z,
                         cache |-> sc.cache, log |-> sc.log], 0, sc.p)
    IN  [ek_x  |-> [cl.ek_x EXCEPT ![k] = One],
         ek_y  |-> [cl.ek_y EXCEPT ![k] = One],
         cache |-> cl.cache,
         log   |-> cl.log]

\* Mutant of NewEk: += in place of -=.
NewEkAdded(M, k, ek_x, ek_y, dk) ==
    [j \in DOMAIN M |->
        [i \in DOMAIN M[j] |->
            IF i <= k /\ j <= k
            THEN RAdd(M[j][i], RMul(RMul(ek_y[i], ek_x[j]), dk))
            ELSE M[j][i]]]

\* Mutant of NewEk: the loops run over the whole array, with the implicit
\* component 1 beyond index k.
NewEkAll(M, k, ek_x, ek_y, dk) ==
    [j \in DOMAIN M |->
        [i \in DOMAIN M[j] |->
            RSub(M[j][i],
                 RMul(RMul(IF i <= k THEN ek_y[i] ELSE One,
                           IF j <= k THEN ek_x[j] ELSE One), dk))]]

\* m_ek[j][i] -= ek_y[i] * ek_x[j] * dk for i, j in 0 .. k.  Only the
\* entries the array holds are written here; an index beyond them is the
\* out-of-bounds access recorded in oob.
NewEk(M, k, ek_x, ek_y, dk) ==
    [j \in DOMAIN M |->
        [i \in DOMAIN M[j] |->
            IF i <= k /\ j <= k
            THEN RSub(M[j][i], RMul(RMul(ek_y[i], ek_x[j]), dk))
            ELSE M[j][i]]]

\* Mutant of Register: the pivot is inserted at the front.
RegisterFront(P, best_pivot) == <<best_pivot>> \o P

\* m_pivots.push_back(best_pivot)
Register(P, best_pivot) == Append(P, best_pivot)

\* The solver state after step(), given the outcome sc of the pivot search.
\* Indices 0 .. k are accessed, so k >= m_iters is an access outside the
\* array: undefined behaviour, after which the model follows the run no
\* further (every action requires ~oob).
StepResult(sc, dk) ==
    LET k  == Len(m_pivots)
        cv == CrossVectors(sc)
    IN  [ek     |-> NewEk(m_ek, k, cv.ek_x, cv.ek_y, dk),
         pivots |-> Register(m_pivots, sc.p),
         cache  |-> cv.cache,
         log    |-> cv.log,
         val    |-> sc.v,
         oob    |-> (k >= m_iters)]

\* The choices the model leaves open, each offered only where it can change
\* the outcome: a comparison meets a non-finite value only once m_ek holds
\* one, and the operand order shows only when a pivot lies off the grid (all
\* grid pairs are cached by the first scan).
FiniteEk == \A j \in DOMAIN m_ek : \A i \in DOMAIN m_ek[j] : IsFinite(m_ek[j][i])

NfChoices == IF FiniteEk THEN {FALSE} ELSE BOOLEAN

OnGrid(p) ==
    /\ \E t \in 1 .. Len(m_coeff) : m_coeff[t] = p.x
    /\ \E t \in 1 .. Len(m_coeff) : m_coeff[t] = p.y

OrderChoices ==
    IF \A t \in 1 .. Len(m_pivots) : OnGrid(m_pivots[t])
    THEN {FALSE} ELSE BOOLEAN

\* The assignments of step() to the solver and to the history variables,
\* given the record r computed by StepResult.
Commit(r) ==
    /\ m_ek' = r.ek
    /\ m_pivots' = r.pivots
    /\ cache' = r.cache
    /\ f_log' = r.log
    /\ best_vals' = Append(best_vals, r.val)
    /\ oob' = r.oob

DoStep ==
    \E nfL \in NfChoices, nfR \in NfChoices, rtl \in OrderChoices :
        \E sc \in {FindPivot(nfL, nfR, rtl)} :
            \* real dk = real::R_1() / best_val;
            \E dk \in Reciprocals(sc.v) :
                Commit(StepResult(sc, dk))

---------------------------------------------------------------------------
(* solver::dump_gnuplot.                                                   *)

\* operator<< of an int, and of a coordinate.
Str(n) == ToString(n)

\* Mutant of PivotLines: the statements are numbered n instead of n + 1.
PivotLinesShifted(P, n) ==
    << "x" \o Str(n) \o "=" \o Str(P[n + 1].x),
       "y" \o Str(n) \o "=" \o Str(P[n + 1].y),
       "d" \o Str(n) \o "=e" \o Str(n) \o "(x" \o Str(n) \o ",y"
           \o Str(n) \o ")",
       "e" \o Str(n) \o "(x,y)=e" \o Str(n) \o "(x,y)-e" \o Str(n)
           \o "(x" \o Str(n) \o ",y)*e" \o Str(n) \o "(x,y" \o Str(n)
           \o ")/d" \o Str(n) >>

\* The four lines of loop index n (0-based), for pivot list P.
PivotLines(P, n) ==
    << "x" \o Str(n + 1) \o "=" \o Str(P[n + 1].x),
       "y" \o Str(n + 1) \o "=" \o Str(P[n + 1].y),
       "d" \o Str(n + 1) \o "=e" \o Str(n) \o "(x" \o Str(n + 1) \o ",y"
           \o Str(n + 1) \o ")",
       "e" \o Str(n + 1) \o "(x,y)=e" \o Str(n) \o "(x,y)-e" \o Str(n)
           \o "(x" \o Str(n + 1) \o ",y)*e" \o Str(n) \o "(x,y" \o Str(n + 1)
           \o ")/d" \o Str(n + 1) >>

\* for (int n = 0; n < (int)m_pivots.size(); ++n), from index n on.
RECURSIVE DumpLoop(_, _)
DumpLoop(P, n) ==
    IF n >= Len(P) THEN <<>> ELSE PivotLines(P, n) \o DumpLoop(P, n + 1)

\* Everything dump_gnuplot writes, one string per line.
DumpText(P) ==
    << "f(x,y)=sin((1-x)/2*acos((1+y)/2))/sqrt(1-((y+1)/2)**2)",
       "e0(x,y)=f(x,y)" >>
    \o DumpLoop(P, 0)
    \o << "splot [-1:1][-1:1] e" \o Str(Len(P)) \o "(x,y)" >>

---------------------------------------------------------------------------
(* The solver under an arbitrary client: Spec.                             *)

\* solver s(grid_size, iters), for every size within the bounds and every
\* target function of the family.
Init ==
    /\ m_grid_size \in 1 .. MaxGrid
    /\ m_iters \in 0 .. MaxIters
    /\ m_ek = EmptyEk(m_iters)
    /\ m_coeff = Grid(m_grid_size)
    /\ m_pivots = <<>>
    /\ cache = <<>>
    /\ f_coef \in Coefs \X Coefs \X Coefs \X Coefs
    /\ f_log = <<>>
    /\ best_vals = <<>>
    /\ oob = FALSE
    /\ last = [op |-> "solver", x |-> 0, y |-> 0]
    /\ ret = Zero
    /\ out = <<>>
    /\ main_n = 0
    /\ pc = "loop"

\* What a call leaves in last, ret and out.
Returns(op, x, y, v, text) ==
    /\ last' = [op |-> op, x |-> x, y |-> y]
    /\ ret' = v
    /\ out' = text

\* The point at which the client calls eval_f and eval_ek directly: the
\* first grid node, paired with the coordinate 0 (off the grid when
\* grid_size is odd).
ClientPoints == {<<0, m_coeff[1]>>}

\* s.step().  This client stops iterating once a division by zero has made
\* m_ek non-finite (spec.md 7: the caller's reaction to a degenerate pivot);
\* main, which steps on regardless, is MainSpec.
step ==
    /\ ~oob
    /\ FiniteEk
    /\ DoStep
    /\ Returns("step", 0, 0, Zero, <<>>)
    /\ UNCHANGED <<m_grid_size, m_iters, m_coeff, f_coef, main_n, pc>>

\* The effect of a direct call that returned record r = [v, cache, log].
Called(op, x, y, r) ==
    /\ cache' = r.cache
    /\ f_log' = r.log
    /\ Returns(op, x, y, r.v, <<>>)
    /\ UNCHANGED <<m_grid_size, m_iters, m_ek, m_coeff, m_pivots, f_coef,
                   best_vals, oob, main_n, pc>>

\* s.eval_f(x, y)
call_eval_f ==
    /\ ~oob
    /\ \E p \in ClientPoints :
          Called("eval_f", p[1], p[2],
                 eval_f([cache |-> cache, log |-> f_log], p[1], p[2]))

\* s.eval_ek(x, y)
call_eval_ek ==
    /\ ~oob
    /\ \E p \in ClientPoints, rtl \in OrderChoices :
          Called("eval_ek", p[1], p[2],
                 eval_ek([cache |-> cache, log |-> f_log], p[1], p[2], rtl))

\* s.dump_gnuplot()
dump_gnuplot ==
    /\ ~oob
    /\ Returns("dump_gnuplot", 0, 0, Zero, DumpText(m_pivots))
    /\ UNCHANGED <<m_grid_size, m_iters, m_ek, m_coeff, m_pivots, cache,
                   f_coef, f_log, best_vals, oob, main_n, pc>>

Next == step \/ call_eval_f \/ call_eval_ek \/ dump_gnuplot

Spec == Init /\ [][Next]_vars

---------------------------------------------------------------------------
(* The program: MainSpec.                                                  *)

\* for (int n = 0; n < iters; ++n) s.step();
main_step ==
    /\ pc = "loop"
    /\ main_n < m_iters
    /\ DoStep
    /\ Returns("step", 0, 0, Zero, <<>>)
    /\ main_n' = main_n + 1
    /\ UNCHANGED <<m_grid_size, m_iters, m_coeff, f_coef, pc>>

\* s.dump_gnuplot(); return EXIT_SUCCESS;
main_dump ==
    /\ pc = "loop"
    /\ main_n >= m_iters
    /\ Returns("dump_gnuplot", 0, 0, Zero, DumpText(m_pivots))
    /\ pc' = "exit"
    /\ UNCHANGED <<m_grid_size, m_iters, m_ek, m_coeff, m_pivots, cache,
                   f_coef, f_log, best_vals, oob, main_n>>

MainNext == main_step \/ main_dump

MainSpec == Init /\ [][MainNext]_vars

---------------------------------------------------------------------------
(* Vocabulary of the properties.                                           *)

K == Len(m_pivots)

GridPairs ==
    {<<m_coeff[a], m_coeff[b]>> : a \in 1 .. Len(m_coeff), b \in 1 .. Len(m_coeff)}

\* "Exact arithmetic and non-zero pivot residuals": every step so far chose
\* a finite, non-zero best_val, and no access left the array.
Regular ==
    /\ ~oob
    /\ \A n \in 1 .. Len(best_vals) :
           IsFinite(best_vals[n]) /\ ~IsZero(best_vals[n])

\* a / b on finite values (NonFinite when b is zero).
RQuot(a, b) ==
    IF IsZero(b) \/ ~IsFinite(a) \/ ~IsFinite(b) THEN NonFinite
    ELSE Norm(a[1] * b[2], a[2] * b[1])

\* The recurrence dump_gnuplot emits, evaluated on f and the pivot list
\* alone: e_0 = f, e_n = e_{n-1} - e_{n-1}(x_n,y) * e_{n-1}(x,y_n) / d_n.
RECURSIVE RecE(_, _, _)
RecE(n, x, y) ==
    IF n = 0 THEN f(x, y)
    ELSE LET xn == m_pivots[n].x
             yn == m_pivots[n].y
             dn == RecE(n - 1, xn, yn)
         IN  RSub(RecE(n - 1, x, y),
                  RQuot(RMul(RecE(n - 1, xn, y), RecE(n - 1, x, yn)), dn))

\* The grid pair the scan of step visits at position t (y outer, x inner).
ScanPair(t) ==
    <<m_coeff[((t - 1) % Len(m_coeff)) + 1],
      m_coeff[((t - 1) \div Len(m_coeff)) + 1]>>

ScanLen == Len(m_coeff) * Len(m_coeff)

\* |eval_ek| at scan position t, in the current state.
Mag(t) == RAbs(EkVal(ScanPair(t)[1], ScanPair(t)[2]))

\* The residual magnitudes of the current state, in scan order.
Mags == [t \in 1 .. ScanLen |-> Mag(t)]

IsMax(m, t) == \A u \in 1 .. ScanLen : ~RLt(m[t], m[u])

\* A transition that is a completed step().
IsStep == last'.op = "step" /\ Len(m_pivots') = K + 1

NewPivot == <<m_pivots'[K + 1].x, m_pivots'[K + 1].y>>

\* The new pivot is the first / the last pair of maximal magnitude in m.
FirstMaxIs(m) ==
    \E t \in 1 .. ScanLen :
        /\ NewPivot = ScanPair(t)
        /\ IsMax(m, t)
        /\ \A u \in 1 .. (t - 1) : ~IsMax(m, u)

LastMaxIs(m) ==
    \E t \in 1 .. ScanLen :
        /\ NewPivot = ScanPair(t)
        /\ IsMax(m, t)
        /\ \A u \in (t + 1) .. ScanLen : ~IsMax(m, u)

NoDup(q) == \A a, b \in 1 .. Len(q) : a # b => q[a] # q[b]

Keys(c) == [t \in 1 .. Len(c) |-> <<c[t][1], c[t][2]>>]

IsPrefix(q, r) == Len(q) <= Len(r) /\ SubSeq(r, 1, Len(q)) = q

---------------------------------------------------------------------------
(* The claims.                                                             *)

\* C1: after a step that selected a pivot with a finite non-zero residual,
\* eval_ek at that pivot, under the updated matrix and pivot list, is
\* exactly zero.
ZeroingProperty ==
    (/\ ~oob
     /\ K >= 1
     /\ IsFinite(best_vals[K])
     /\ ~IsZero(best_vals[K]))
    => IsZero(EkVal(m_pivots[K].x, m_pivots[K].y))

ZeroingWitness ==
    /\ ~oob
    /\ K = 2
    /\ IsFinite(best_vals[K])
    /\ ~IsZero(best_vals[K])
    /\ last.op = "step"

\* C2: with non-zero pivot residuals, eval_ek computed from the coefficient
\* matrix equals the emitted recurrence e_K at every grid pair, for every
\* number K of completed steps.
RecurrenceAgrees ==
    Regular => \A p \in GridPairs : EkVal(p[1], p[2]) = RecE(K, p[1], p[2])

RecurrenceWitness ==
    /\ Regular
    /\ K = 3
    /\ \E p \in GridPairs : ~IsZero(RecE(1, p[1], p[2]))

\* C3 as claimed: a step from a finite state selects a grid pair of maximal
\* |eval_ek|, and among the pairs of that magnitude the first one in scan
\* order (y outer, x inner).
FirstMaxSelected ==
    [][(IsStep /\ FiniteEk)
       => FirstMaxIs(Mags)]_vars

\* C3 as amended: the step has evaluated every pair of the cross product,
\* and among the pairs of maximal |eval_ek| it selects the last one in scan
\* order.
LastMaxSelected ==
    [][(IsStep /\ FiniteEk)
       => /\ \A p \in GridPairs : CacheFind(cache', p[1], p[2]) # 0
          /\ LastMaxIs(Mags)]_vars

\* A first step has chosen among several pairs of the maximal magnitude.
TieWitness ==
    /\ last.op = "step"
    /\ K = 1
    /\ ~IsZero(best_vals[1])
    /\ Cardinality({p \in GridPairs :
                       RAbs(f(p[1], p[2])) = RAbs(best_vals[1])}) >= 2

\* C4 as claimed: when every grid pair has eval_ek = 0, a step changes
\* neither the coefficient matrix nor the pivot list.
DegenerateStepRejected ==
    [][(FiniteEk /\ last'.op = "step"
        /\ \A t \in 1 .. ScanLen : IsZero(Mag(t)))
       => (m_ek' = m_ek /\ m_pivots' = m_pivots)]_vars

\* C5: the cache never holds two entries with the same key, f is called at
\* most once per pair, eval_f returns the value of the first entry stored
\* for the pair, and the cache only grows (entries are neither removed nor
\* changed).
CacheKept ==
    /\ NoDup(Keys(cache))
    /\ NoDup(f_log)
    /\ Len(f_log) = Len(cache)
    /\ last.op = "eval_f"
          => /\ CacheFind(cache, last.x, last.y) # 0
             /\ ret = cache[CacheFind(cache, last.x, last.y)][3]

CacheCorrect ==
    /\ []CacheKept
    /\ [][IsPrefix(cache, cache') /\ IsPrefix(f_log, f_log')]_vars

\* A direct eval_f call after a step, at a pair the step had not cached.
CacheWitness ==
    /\ last.op = "eval_f"
    /\ K >= 1
    /\ Len(cache) > ScanLen

\* C6 as claimed: no coefficient-matrix index outside 0 .. iters - 1 is ever
\* read or written.
CapacityRespected == ~oob

\* C7: when main exits, the pivot list has iters entries and the output is
\* the f line, the e0 line, four lines per pivot n = 1 .. p in order, and
\* the splot line of e_p.
EmittedText ==
    pc = "exit" =>
        /\ K = m_iters
        /\ Len(out) = 4 * K + 3
        /\ out[1] = "f(x,y)=sin((1-x)/2*acos((1+y)/2))/sqrt(1-((y+1)/2)**2)"
        /\ out[2] = "e0(x,y)=f(x,y)"
        /\ \A n \in 1 .. K :
              /\ out[4 * n - 1] = "x" \o Str(n) \o "=" \o Str(m_pivots[n].x)
              /\ out[4 * n] = "y" \o Str(n) \o "=" \o Str(m_pivots[n].y)
              /\ out[4 * n + 1] = "d" \o Str(n) \o "=e" \o Str(n - 1)
                     \o "(x" \o Str(n) \o ",y" \o Str(n) \o ")"
              /\ out[4 * n + 2] = "e" \o Str(n) \o "(x,y)=e" \o Str(n - 1)
                     \o "(x,y)-e" \o Str(n - 1) \o "(x" \o Str(n) \o ",y)*e"
                     \o Str(n - 1) \o "(x,y" \o Str(n) \o ")/d" \o Str(n)
        /\ out[4 * K + 3] = "splot [-1:1][-1:1] e" \o Str(K) \o "(x,y)"

EmittedWitness == pc = "exit" /\ K = 3

\* C8: the pivot list has one entry per completed step; a step appends one
\* pair (the one whose eval_ek it recorded as best_val) and keeps the
\* earlier entries in place; no other call changes the list; the candidate
\* grid never changes.
PivotsAppendOnly ==
    /\ [](Len(m_pivots) = Len(best_vals))
    /\ [][/\ m_coeff' = m_coeff
          /\ IF last'.op = "step"
             THEN /\ Len(m_pivots') = K + 1
                  /\ SubSeq(m_pivots', 1, K) = m_pivots
                  /\ FiniteEk => EkVal(NewPivot[1], NewPivot[2]) = best_vals'[K + 1]
             ELSE m_pivots' = m_pivots]_vars

AppendWitness ==
    /\ K = 2
    /\ m_pivots[1] # m_pivots[2]
    /\ last.op = "eval_ek"

\* C9: with K pivots recorded, every entry m_ek[j][i] with i >= K or j >= K
\* is zero.
MatrixZeroOutside ==
    \A j \in DOMAIN m_ek : \A i \in DOMAIN m_ek[j] :
        (i >= K \/ j >= K) => IsZero(m_ek[j][i])

MatrixWitness ==
    /\ K = 2
    /\ m_iters = 3
    /\ \A j \in 0 .. 1 : \A i \in 0 .. 1 : ~IsZero(m_ek[j][i])

\* C10: with non-zero pivot residuals, eval_ek is zero on the whole grid row
\* and column through every recorded pivot; the pivots have pairwise
\* distinct x and pairwise distinct y; there are at most grid_size + 1 of
\* them, and once there are that many every grid residual is zero.
RowsColumnsZeroed ==
    Regular =>
        /\ \A n \in 1 .. K : \A t \in 1 .. Len(m_coeff) :
              /\ IsZero(EkVal(m_pivots[n].x, m_coeff[t]))
              /\ IsZero(EkVal(m_coeff[t], m_pivots[n].y))
        /\ \A a, b \in 1 .. K :
              a # b => /\ m_pivots[a].x # m_pivots[b].x
                       /\ m_pivots[a].y # m_pivots[b].y
        /\ K <= m_grid_size + 1
        /\ K = m_grid_size + 1
              => \A p \in GridPairs : IsZero(EkVal(p[1], p[2]))

\* grid_size + 1 pivots with non-zero residuals, then a further step, which
\* found every residual zero.
FullRankWitness ==
    /\ ~oob
    /\ K = m_grid_size + 2
    /\ IsZero(best_vals[K])
    /\ \A n \in 1 .. (K - 1) : IsFinite(best_vals[n]) /\ ~IsZero(best_vals[n])

===========================================================================
